---- MODULE Spec2Model ----
(***************************************************************************)
(* Model of src/stock.py: the two scraping pipelines get_dividend and      *)
(* get_ipo, and the "Resources" page of main that calls them.              *)
(*                                                                         *)
(* Text is a sequence of tokens (a token stands for one or more            *)
(* characters).  The structural characters of the dividend script text     *)
(* are single tokens: "V" is the text 'var dtdata = ', "q" is the double   *)
(* quote, and "[", "]", ",", ";", " " are themselves.                      *)
(***************************************************************************)
EXTENDS Integers, Sequences, FiniteSets, TLC

(* ------------------------------------------------------------------ *)
(* Bounds of the model                                                 *)
(* ------------------------------------------------------------------ *)
MaxDivRows == 2
MaxIpoRows == 2
MaxLocRows == 2

(* ------------------------------------------------------------------ *)
(* Program constants                                                   *)
(* ------------------------------------------------------------------ *)
StatusOK == 200

DIVIDEND_URL == "https://klse.i3investor.com/web/entitlement/dividend/latest"
IPO_URL == "https://www.bursamalaysia.com/listing/listing_resources/ipo/ipo_summary"

DividendColumns ==
  <<"Announcement Date", "Stock Name", "Opening Price", "Current Price",
    "Dividend", "Ex Date", "Stock Code", "Blank", "URL">>

IpoColumns ==
  <<"Name of Company", "Application Opened", "Application Closed",
    "Issue Price", "Public Issue", "Offer for Sale", "Private Placement",
    "Issue House", "List Sought", "Date of Listing">>

\* '/web/stock/entitlement/'
EntitlementPath == <<"/web", "/stock", "/entitlement", "/">>
\* 'https://klse.i3investor.com/'
BaseUrl == <<"https:", "//klse.i3investor.com", "/">>

(* ------------------------------------------------------------------ *)
(* Values: JSON values, DataFrame cells                                *)
(* ------------------------------------------------------------------ *)
Str(s) == [t |-> "str", s |-> s, items |-> <<>>]
Num(s) == [t |-> "num", s |-> s, items |-> <<>>]
List(xs) == [t |-> "list", s |-> <<>>, items |-> xs]
Date(y, m, d) == [t |-> "date", s |-> <<y, m, d>>, items |-> <<>>]
None == [t |-> "None", s |-> <<>>, items |-> <<>>]
NaN == [t |-> "NaN", s |-> <<>>, items |-> <<>>]
NaT == [t |-> "NaT", s |-> <<>>, items |-> <<>>]

IsNull(c) == c.t \in {"None", "NaN", "NaT"}

(* ------------------------------------------------------------------ *)
(* Sequence helpers                                                    *)
(* ------------------------------------------------------------------ *)
RECURSIVE Join(_, _)
Join(ss, sep) ==
  IF ss = <<>> THEN <<>>
  ELSE IF Len(ss) = 1 THEN ss[1]
  ELSE ss[1] \o sep \o Join(Tail(ss), sep)

MaxOf(S) == CHOOSE x \in S : \A y \in S : y <= x
MinOf(S) == CHOOSE x \in S : \A y \in S : x <= y

SeqsUpTo(S, n) == UNION {[1..k -> S] : k \in 0..n}

IsPrefixAt(pat, s, i) ==
  /\ i + Len(pat) - 1 <= Len(s)
  /\ \A k \in 1..Len(pat) : s[i + k - 1] = pat[k]

(* ------------------------------------------------------------------ *)
(* re.search(r'var dtdata = (\[.*?\])\];', content, re.DOTALL)        *)
(* ------------------------------------------------------------------ *)
\* the text '];' that must follow group 1, whose last character is ']'
IsTerminatorAt(content, j) ==
  IsPrefixAt(<<"]", "]", ";">>, content, j)

\* positions where 'var dtdata = [' starts and some terminator follows
MatchStarts(content) ==
  {i \in 1..Len(content) :
     /\ IsPrefixAt(<<"V", "[">>, content, i)
     /\ \E j \in (i + 2)..Len(content) : IsTerminatorAt(content, j)}

NoMatch == [found |-> FALSE, group1 |-> <<>>]

\* the same search with a greedy '.*': the longest text that lets the rest match
ReSearch_Greedy(content) ==
  IF MatchStarts(content) = {} THEN NoMatch
  ELSE LET i == MinOf(MatchStarts(content))
           j == MaxOf({k \in (i + 2)..Len(content) : IsTerminatorAt(content, k)})
       IN [found |-> TRUE, group1 |-> SubSeq(content, i + 1, j)]

\* leftmost start, then the shortest '.*?' that lets the rest match
ReSearch(content) ==
  IF MatchStarts(content) = {} THEN NoMatch
  ELSE LET i == MinOf(MatchStarts(content))
           j == MinOf({k \in (i + 2)..Len(content) : IsTerminatorAt(content, k)})
       IN [found |-> TRUE, group1 |-> SubSeq(content, i + 1, j)]

(* ------------------------------------------------------------------ *)
(* json.loads                                                          *)
(* ------------------------------------------------------------------ *)
JsonWhitespace == {" "}
NumTokens == {"1", "2"}

ParseFail == [ok |-> FALSE, val |-> None, pos |-> 0]
ParseOk(v, p) == [ok |-> TRUE, val |-> v, pos |-> p]

RECURSIVE SkipWs(_, _)
SkipWs(s, i) ==
  IF i <= Len(s) /\ s[i] \in JsonWhitespace THEN SkipWs(s, i + 1) ELSE i

RECURSIVE ParseValue(_, _)
RECURSIVE ParseArray(_, _, _, _)

\* the elements of an array, from position i0 (after '[' or after ',')
ParseArray(s, i0, acc, first) ==
  LET i == SkipWs(s, i0) IN
  IF i > Len(s) THEN ParseFail
  ELSE IF first /\ s[i] = "]" THEN ParseOk(List(<<>>), i + 1)
  ELSE LET v == ParseValue(s, i) IN
       IF ~v.ok THEN ParseFail
       ELSE LET k == SkipWs(s, v.pos) IN
            IF k > Len(s) THEN ParseFail
            ELSE IF s[k] = "," THEN ParseArray(s, k + 1, Append(acc, v.val), FALSE)
            ELSE IF s[k] = "]" THEN ParseOk(List(Append(acc, v.val)), k + 1)
            ELSE ParseFail

ParseValue(s, i0) ==
  LET i == SkipWs(s, i0) IN
  IF i > Len(s) THEN ParseFail
  ELSE IF s[i] = "[" THEN ParseArray(s, i + 1, <<>>, TRUE)
  ELSE IF s[i] = "q" THEN
       LET ends == {k \in (i + 1)..Len(s) : s[k] = "q"} IN
       IF ends = {} THEN ParseFail
       ELSE ParseOk(Str(SubSeq(s, i + 1, MinOf(ends) - 1)), MinOf(ends) + 1)
  ELSE IF s[i] = "null" THEN ParseOk(None, i + 1)
  ELSE IF s[i] \in NumTokens THEN ParseOk(Num(<<s[i]>>), i + 1)
  ELSE ParseFail

\* [ok, val]; ok = FALSE is json.JSONDecodeError (also on trailing data)
JsonLoads(s) ==
  LET v == ParseValue(s, 1) IN
  IF v.ok /\ SkipWs(s, v.pos) > Len(s)
  THEN [ok |-> TRUE, val |-> v.val]
  ELSE [ok |-> FALSE, val |-> None]

(* ------------------------------------------------------------------ *)
(* str.replace(old, new): every non-overlapping occurrence, one pass   *)
(* ------------------------------------------------------------------ *)
RECURSIVE StrReplaceFrom(_, _, _, _)
StrReplaceFrom(s, old, new, i) ==
  IF i > Len(s) THEN <<>>
  ELSE IF IsPrefixAt(old, s, i)
       THEN new \o StrReplaceFrom(s, old, new, i + Len(old))
       ELSE <<s[i]>> \o StrReplaceFrom(s, old, new, i + 1)

StrReplace(s, old, new) == StrReplaceFrom(s, old, new, 1)

(* ------------------------------------------------------------------ *)
(* pd.to_datetime                                                      *)
(* ------------------------------------------------------------------ *)
MonthAbbr ==
  <<"Jan", "Feb", "Mar", "Apr", "May", "Jun",
    "Jul", "Aug", "Sep", "Oct", "Nov", "Dec">>
MonthNumber ==
  <<"01", "02", "03", "04", "05", "06", "07", "08", "09", "10", "11", "12">>
DayValue == ("02" :> 2) @@ ("15" :> 15) @@ ("29" :> 29) @@ ("31" :> 31)
YearIsLeap == ("2023" :> FALSE) @@ ("2024" :> TRUE)

MonthIndex(tok) == CHOOSE m \in 1..12 : MonthAbbr[m] = tok

DaysInMonth(m, leap) ==
  IF m = 2 THEN (IF leap THEN 29 ELSE 28)
  ELSE IF m \in {4, 6, 9, 11} THEN 30 ELSE 31

\* text matches '%d<sep>%b<sep>%Y' and names a day of the calendar
StrptimeOk(s, sep) ==
  /\ Len(s) = 5
  /\ s[2] = sep /\ s[4] = sep
  /\ s[1] \in DOMAIN DayValue
  /\ \E m \in 1..12 : MonthAbbr[m] = s[3]
  /\ s[5] \in DOMAIN YearIsLeap
  /\ DayValue[s[1]] <= DaysInMonth(MonthIndex(s[3]), YearIsLeap[s[5]])

Strptime(s, sep) == Date(s[5], MonthNumber[MonthIndex(s[3])], s[1])

\* strings pandas reads as a missing value before looking at the format
NatStrings == {<<>>, <<"NaT">>, <<"nan">>}

\* one element under format=<fmt>; ok = FALSE is ValueError
ToDatetimeStrict(c, sep) ==
  IF IsNull(c) THEN [ok |-> TRUE, val |-> NaT]
  ELSE IF c.t = "str" /\ c.s \in NatStrings THEN [ok |-> TRUE, val |-> NaT]
  ELSE IF c.t = "str" /\ StrptimeOk(c.s, sep)
       THEN [ok |-> TRUE, val |-> Strptime(c.s, sep)]
  ELSE [ok |-> FALSE, val |-> NaT]

\* one element under errors='coerce' (no format): the day-month-year
\* layouts of the two sites are read as dates, anything else is NaT
ToDatetimeCoerce(c) ==
  IF c.t = "str" /\ StrptimeOk(c.s, " ") THEN Strptime(c.s, " ")
  ELSE IF c.t = "str" /\ StrptimeOk(c.s, "-") THEN Strptime(c.s, "-")
  ELSE NaT

(* ------------------------------------------------------------------ *)
(* pd.DataFrame(rows, columns=...) on a list of lists                  *)
(* ------------------------------------------------------------------ *)
\* width of the object array pandas builds: the longest row
FrameWidth(rs) == MaxOf({Len(rs[i]) : i \in 1..Len(rs)})

\* a shorter row is filled with None up to the width
PadRow(row, width) ==
  [k \in 1..width |-> IF k <= Len(row) THEN row[k] ELSE None]

\* ok = FALSE is ValueError('<n> columns passed, passed data had <w> columns')
DataFrame(rs, columns) ==
  IF rs = <<>> THEN [ok |-> TRUE, rows |-> <<>>]
  ELSE IF FrameWidth(rs) # Len(columns) THEN [ok |-> FALSE, rows |-> <<>>]
  ELSE [ok |-> TRUE,
        rows |-> [i \in 1..Len(rs) |-> PadRow(rs[i], Len(columns))]]

(* ------------------------------------------------------------------ *)
(* What a call hands back: a return value or a raised exception        *)
(* ------------------------------------------------------------------ *)
Frame(columns, rows) ==
  [t |-> "DataFrame", columns |-> columns,
   index |-> [i \in 1..Len(rows) |-> i], rows |-> rows]
NoneValue == [t |-> "None", columns |-> <<>>, index |-> <<>>, rows |-> <<>>]
Unset == [t |-> "unset", columns |-> <<>>, index |-> <<>>, rows |-> <<>>]

NoException == [in |-> "", type |-> "", args |-> <<>>]
Exception(where, type, args) == [in |-> where, type |-> type, args |-> args]

Return(v) == [kind |-> "return", value |-> v, type |-> "", args |-> <<>>]
Raise(type, args) ==
  [kind |-> "raise", value |-> Unset, type |-> type, args |-> args]

(* ------------------------------------------------------------------ *)
(* get_dividend, lines 32-39: frame and column rewrites                *)
(* ------------------------------------------------------------------ *)
\* Series.str.replace(old, new): a value that is no string gives NaN
StrAccessorReplace(c, old, new) ==
  IF c.t = "str" THEN Str(StrReplace(c.s, old, new)) ELSE NaN

\* prefix + Series: a missing value stays missing, a string is
\* concatenated, anything else is TypeError (ok = FALSE)
RAddStr(prefix, c) ==
  IF c.t = "str" THEN [ok |-> TRUE, val |-> Str(prefix \o c.s)]
  ELSE IF IsNull(c) THEN [ok |-> TRUE, val |-> NaN]
  ELSE [ok |-> FALSE, val |-> NaN]

\* dropping the last column in place of the 8th
DropBlank_Last(r) == SubSeq(r, 1, 8)

\* df.drop(columns=['Blank']): the 8th of the 9 columns
DropBlank(r) == SubSeq(r, 1, 7) \o SubSeq(r, 9, 9)

DividendOutColumns == DropBlank(DividendColumns)

\* one row of the 9-column frame, rewritten (lines 33-38)
DividendRecord(r) ==
  LET d == DropBlank(r) IN
  [d EXCEPT ![1] = ToDatetimeStrict(r[1], "-").val,
            ![6] = ToDatetimeStrict(r[6], "-").val,
            ![7] = StrAccessorReplace(r[7], EntitlementPath, <<>>),
            ![8] = RAddStr(BaseUrl, r[9]).val]

\* the rows of the decoded payload (an array of arrays)
DataRows(data) == [i \in 1..Len(data.items) |-> data.items[i].items]

DividendFrame(data) ==
  LET f == DataFrame(DataRows(data), DividendColumns) IN
  IF ~f.ok THEN Raise("ValueError", <<"columns passed">>)
  ELSE IF \E i \in 1..Len(f.rows) : ~RAddStr(BaseUrl, f.rows[i][9]).ok
       THEN Raise("TypeError", <<"URL">>)
  ELSE IF \E i \in 1..Len(f.rows) : ~ToDatetimeStrict(f.rows[i][1], "-").ok
       THEN Raise("ValueError", <<"Announcement Date">>)
  ELSE IF \E i \in 1..Len(f.rows) : ~ToDatetimeStrict(f.rows[i][6], "-").ok
       THEN Raise("ValueError", <<"Ex Date">>)
  ELSE Return(Frame(DividendOutColumns,
                    [i \in 1..Len(f.rows) |-> DividendRecord(f.rows[i])]))

(* ------------------------------------------------------------------ *)
(* get_ipo, lines 58-80                                                *)
(* ------------------------------------------------------------------ *)
HtmlWhitespace == {" ", "\n"}

RECURSIVE LStrip(_)
LStrip(s) ==
  IF s # <<>> /\ Head(s) \in HtmlWhitespace THEN LStrip(Tail(s)) ELSE s

RECURSIVE RStrip(_)
RStrip(s) ==
  IF s # <<>> /\ s[Len(s)] \in HtmlWhitespace
  THEN RStrip(SubSeq(s, 1, Len(s) - 1)) ELSE s

\* cell.get_text(strip=True).replace('\n', ' ')
CellText(s) == StrReplace(RStrip(LStrip(s)), <<"\n">>, <<" ">>)

\* soup.find('table'): the first table of the document, or none
FindTable(soup) == IF soup = <<>> THEN <<>> ELSE <<soup[1]>>

\* rows of the table body as lists of cell texts (lines 67-71)
TableRows(tbody) ==
  [i \in 1..Len(tbody) |->
     [k \in 1..Len(tbody[i]) |-> Str(CellText(tbody[i][k]))]]

\* Series.replace('-', np.nan): the whole value must equal '-'
ReplaceDash(c) == IF c = Str(<<"-">>) THEN NaN ELSE c

\* one row of the 10-column frame, rewritten (lines 76-79)
IpoRecord(r) ==
  [r EXCEPT ![2] = ToDatetimeStrict(r[2], " ").val,
            ![3] = ToDatetimeCoerce(ReplaceDash(r[3])),
            ![10] = ToDatetimeStrict(r[10], " ").val]

\* the same with Application Closed parsed like the two required dates
IpoFrame_StrictClosed(rs) ==
  LET f == DataFrame(rs, IpoColumns) IN
  IF ~f.ok THEN Raise("ValueError", <<"columns passed">>)
  ELSE IF \E i \in 1..Len(f.rows) : \E k \in {2, 3, 10} :
            ~ToDatetimeStrict(f.rows[i][k], " ").ok
       THEN Raise("ValueError", <<"date">>)
  ELSE Return(Frame(IpoColumns,
                    [i \in 1..Len(f.rows) |->
                       [f.rows[i] EXCEPT ![2] = ToDatetimeStrict(@, " ").val,
                                         ![3] = ToDatetimeStrict(@, " ").val,
                                         ![10] = ToDatetimeStrict(@, " ").val]]))

IpoFrame(rs) ==
  LET f == DataFrame(rs, IpoColumns) IN
  IF ~f.ok THEN Raise("ValueError", <<"columns passed">>)
  ELSE IF \E i \in 1..Len(f.rows) : ~ToDatetimeStrict(f.rows[i][2], " ").ok
       THEN Raise("ValueError", <<"Application Opened">>)
  ELSE IF \E i \in 1..Len(f.rows) : ~ToDatetimeStrict(f.rows[i][10], " ").ok
       THEN Raise("ValueError", <<"Date of Listing">>)
  ELSE Return(Frame(IpoColumns,
                    [i \in 1..Len(f.rows) |-> IpoRecord(f.rows[i])]))

(* ------------------------------------------------------------------ *)
(* The two sites: pages the GET may bring back                         *)
(* ------------------------------------------------------------------ *)
StatusCodes == {StatusOK, 404, 500}

\* how the site writes a JSON value into the script text
SerCell(c) ==
  IF c.t = "str" THEN <<"q">> \o c.s \o <<"q">>
  ELSE IF c.t = "num" THEN c.s
  ELSE <<"null">>

SerRow(r, comma) ==
  <<"[">> \o Join([k \in 1..Len(r) |-> SerCell(r[k])], comma) \o <<"]">>

\* style "compact": no whitespace; "spaced": a blank after each comma;
\* "padded": a blank also before the closing bracket of the array
SerArray(rows, style) ==
  LET comma == IF style = "compact" THEN <<",">> ELSE <<",", " ">> IN
  <<"[">> \o Join([i \in 1..Len(rows) |-> SerRow(rows[i], comma)], comma)
          \o (IF style = "padded" THEN <<" ">> ELSE <<>>) \o <<"]">>

\* the page: '... var dtdata = <array>; ...'
ScriptText(pre, rows, style, post) ==
  pre \o <<"V">> \o SerArray(rows, style) \o <<";">> \o post

DateText(d, m, y, sep) == <<d, sep, m, sep, y>>

\* the row of the documented example, and a second one that differs from
\* it in every column
DivRowA ==
  <<Str(DateText("02", "Jan", "2024", "-")), Str(<<"ABC", " ", "Bhd">>),
    Str(<<"1.20">>), Str(<<"1.25">>), Str(<<"0.05">>),
    Str(DateText("15", "Jan", "2024", "-")), Str(<<"1234">>), Str(<<>>),
    Str(EntitlementPath \o <<"1234">>)>>
DivRowB ==
  <<Str(DateText("29", "Feb", "2024", "-")), Str(<<"XYZ">>),
    Str(<<"3.00">>), Str(<<"3.10">>), Str(<<"0.12">>),
    Str(DateText("31", "Mar", "2023", "-")),
    Str(EntitlementPath \o <<"5678">>), Str(<<>>),
    Str(<<"web", "/entitlement", "/", "5678">>)>>
\* Ex Date written year first
DivRowBadEx ==
  [DivRowB EXCEPT ![6] = Str(<<"2024", "-", "01", "-", "15">>)]
\* Announcement Date left empty
DivRowEmptyAnn == [DivRowA EXCEPT ![1] = Str(<<>>)]
\* schema drift: 7 and 10 elements
DivRow7 == SubSeq(DivRowB, 1, 7)
DivRow10 == DivRowA \o <<Str(<<"extra">>)>>

DivRowCatalog ==
  {DivRowA, DivRowB, DivRowBadEx, DivRowEmptyAnn, DivRow7, DivRow10}

\* script text that follows the assignment and has a ']];' of its own
OtherScript == <<"var", "[", "[", "1", "]", "]", ";">>

DividendPages ==
  {ScriptText(<<"<script>">>, rows, "compact", <<"</script>">>) :
     rows \in SeqsUpTo(DivRowCatalog, MaxDivRows)}
  \cup {ScriptText(<<"<script>">>, rows, "compact", OtherScript) :
          rows \in SeqsUpTo({DivRowA, DivRow7}, 1)}
  \cup {<<"<html>", "[", "]", "]", ";">>,
        <<"V", "[", "[", "q", "02", "q", "x", "]", "]", ";">>,
        <<"V", "[", "[", "q", "]", "]", ";", "q", "]", "]", ";">>}

\* IPO page: the document is the sequence of its <table> elements, a
\* table the sequence of its <tbody> elements, a body the sequence of
\* its <tr> rows, a row the sequence of the texts of its <td> cells
IpoRowA ==
  <<<<"Alpha", " ", "Bhd">>, <<" ", "02", " ", "Jan", " ", "2024", "\n">>,
    DateText("15", "Jan", "2024", " "), <<"0.50">>, <<"100">>, <<"20">>,
    <<"30">>, <<"House", "A">>, <<"MAIN">>, <<"29", "\n", "Feb", " ", "2024">>>>
IpoRowDash ==
  <<<<"Beta">>, DateText("15", "Jan", "2024", " "), <<" ", "-", " ">>,
    <<"0.80">>, <<"200">>, <<"-">>, <<"-">>, <<"House", "B">>, <<"ACE">>,
    DateText("31", "Mar", "2023", " ")>>
IpoRowTba == [IpoRowDash EXCEPT ![1] = <<"Gamma">>, ![3] = <<"TBA">>]
IpoRowBadListing == [IpoRowA EXCEPT ![1] = <<"Delta">>, ![10] = <<"TBC">>]
IpoRowNoCells == <<>>
IpoRow11 == IpoRowA \o <<<<"extra">>>>

IpoRowCatalog ==
  {IpoRowA, IpoRowDash, IpoRowTba, IpoRowBadListing, IpoRowNoCells, IpoRow11}

IpoPages ==
  {<<<<body>>>> : body \in SeqsUpTo(IpoRowCatalog, MaxIpoRows)}
  \cup {<<>>, <<<<>>>>, <<<<<<IpoRowDash>>>>, <<<<IpoRowA>>>>>>}

Response(status, text, soup) ==
  [status |-> status, text |-> text, soup |-> soup]
NoResponse == Response(0, <<>>, <<>>)

ErrorPage == <<"<html>", "error">>

IpoResponses ==
  {Response(StatusOK, <<>>, soup) : soup \in IpoPages}
  \cup {Response(st, <<>>, <<>>) : st \in StatusCodes \ {StatusOK}}

DividendResponses ==
  {Response(StatusOK, text, <<>>) : text \in DividendPages}
  \cup {Response(st, ErrorPage, <<>>) : st \in StatusCodes \ {StatusOK}}

(* ------------------------------------------------------------------ *)
(* State                                                               *)
(* ------------------------------------------------------------------ *)
VARIABLES
  pc,           \* where the run of main (or of the locate step) stands
  selected,     \* the page chosen in the menu
  requests,     \* the GETs issued so far, by URL
  response,     \* response of the pipeline that is running
  match,        \* get_dividend: result of re.search
  data,         \* get_dividend: the decoded payload
  rows,         \* get_ipo: the rows read from the table body
  ipo_df,       \* main: what get_ipo returned
  dividend_df,  \* main: what get_dividend returned
  raised,       \* the exception that ended the run, if any
  stdout,       \* lines printed
  ui,           \* elements rendered on the page, in order
  source        \* the array the dividend site wrote into its page

vars ==
  <<pc, selected, requests, response, match, data, rows, ipo_df,
    dividend_df, raised, stdout, ui, source>>

MenuOptions == {"Homepage", "Dashboard", "Analysis", "Resources"}

NoSource == [value |-> None, style |-> ""]

Line(text, status) == [text |-> text, status |-> status]

Init ==
  /\ pc = "menu"
  /\ selected = ""
  /\ requests = <<>>
  /\ response = NoResponse
  /\ match = NoMatch
  /\ data = None
  /\ rows = <<>>
  /\ ipo_df = Unset
  /\ dividend_df = Unset
  /\ raised = NoException
  /\ stdout = <<>>
  /\ ui = <<>>
  /\ source = NoSource

(* ------------------------------------------------------------------ *)
(* main: menu, then the Resources page                                 *)
(* ------------------------------------------------------------------ *)
\* lines 141-189; the other three pages do not call the pipelines
Menu ==
  /\ pc = "menu"
  /\ \E sel \in MenuOptions :
       /\ selected' = sel
       /\ IF sel = "Resources"
          THEN /\ ui' = <<"title:IPO", "write:IPO_URL">>
               /\ pc' = "ipo_get"
          ELSE /\ ui' = <<"page:" \o sel>>
               /\ pc' = "done"
  /\ UNCHANGED <<requests, response, match, data, rows, ipo_df,
                 dividend_df, raised, stdout, source>>

\* an exception nobody catches ends the run of main
Abort(where, type, args) ==
  /\ raised' = Exception(where, type, args)
  /\ pc' = "aborted"

(* ---------------------------- get_ipo ------------------------------ *)
\* line 55: the one GET; it brings a response, or raises and leaves
\* the local 'response' unbound
IpoGet ==
  /\ pc = "ipo_get"
  /\ requests' = Append(requests, IPO_URL)
  /\ \/ /\ \E r \in IpoResponses : response' = r
        /\ pc' = "ipo_status"
        /\ UNCHANGED raised
     \/ /\ Abort("get_ipo", "ConnectionError", <<>>)
        /\ response' = NoResponse
  /\ UNCHANGED <<selected, match, data, rows, ipo_df, dividend_df,
                 stdout, ui, source>>

\* lines 56, 81-82
IpoStatus ==
  /\ pc = "ipo_status"
  /\ IF response.status = StatusOK
     THEN /\ pc' = "ipo_rows"
          /\ UNCHANGED <<ipo_df, stdout>>
     ELSE /\ stdout' = Append(stdout,
               Line("Failed to access the website. Status code:",
                    response.status))
          /\ ipo_df' = NoneValue
          /\ pc' = "ipo_show"
  /\ UNCHANGED <<selected, requests, response, match, data, rows,
                 dividend_df, raised, ui, source>>

\* lines 58-71: None has neither find_all nor find; the header texts
\* of lines 62-64 are collected and never read again
IpoRows ==
  /\ pc = "ipo_rows"
  /\ LET table == FindTable(response.soup) IN
     IF table = <<>> THEN
       /\ Abort("get_ipo", "AttributeError", <<"find_all">>)
       /\ UNCHANGED rows
     ELSE IF table[1] = <<>> THEN
       /\ Abort("get_ipo", "AttributeError", <<"find_all">>)
       /\ UNCHANGED rows
     ELSE
       /\ rows' = TableRows(table[1][1])
       /\ pc' = "ipo_frame"
       /\ UNCHANGED raised
  /\ UNCHANGED <<selected, requests, response, match, data, ipo_df,
                 dividend_df, stdout, ui, source>>

\* lines 73-80
IpoNormalize ==
  /\ pc = "ipo_frame"
  /\ LET out == IpoFrame(rows) IN
     IF out.kind = "return" THEN
       /\ ipo_df' = out.value
       /\ pc' = "ipo_show"
       /\ UNCHANGED raised
     ELSE
       /\ Abort("get_ipo", out.type, out.args)
       /\ UNCHANGED ipo_df
  /\ UNCHANGED <<selected, requests, response, match, data, rows,
                 dividend_df, stdout, ui, source>>

\* line 191: st.dataframe takes None as well as a frame
IpoShow ==
  /\ pc = "ipo_show"
  /\ ui' = Append(ui, "dataframe:ipo")
  /\ pc' = "ipo_csv"
  /\ UNCHANGED <<selected, requests, response, match, data, rows, ipo_df,
                 dividend_df, raised, stdout, source>>

\* lines 194-203: None has no to_csv
IpoCsv ==
  /\ pc = "ipo_csv"
  /\ IF ipo_df.t = "None" THEN
       /\ Abort("main", "AttributeError", <<"to_csv">>)
       /\ UNCHANGED ui
     ELSE
       /\ ui' = ui \o <<"download:ipo.csv", "title:Dividend",
                        "write:DIVIDEND_URL">>
       /\ pc' = "div_get"
       /\ UNCHANGED raised
  /\ UNCHANGED <<selected, requests, response, match, data, rows, ipo_df,
                 dividend_df, stdout, source>>

(* -------------------------- get_dividend --------------------------- *)
\* line 24: the one GET; it brings a response, or raises and leaves
\* the local 'response' unbound
DivGet ==
  /\ pc = "div_get"
  /\ requests' = Append(requests, DIVIDEND_URL)
  /\ \/ /\ \E r \in DividendResponses : response' = r
        /\ pc' = "div_status"
        /\ UNCHANGED raised
     \/ /\ Abort("get_dividend", "ConnectionError", <<>>)
        /\ response' = NoResponse
  /\ UNCHANGED <<selected, match, data, rows, ipo_df, dividend_df,
                 stdout, ui, source>>

\* lines 25, 42-43
DivStatus ==
  /\ pc = "div_status"
  /\ IF response.status = StatusOK
     THEN /\ pc' = "div_search"
          /\ UNCHANGED <<dividend_df, stdout>>
     ELSE /\ stdout' = Append(stdout,
               Line("Failed to access the website. Status code:",
                    response.status))
          /\ dividend_df' = NoneValue
          /\ pc' = "div_show"
  /\ UNCHANGED <<selected, requests, response, match, data, rows, ipo_df,
                 raised, ui, source>>

\* lines 26-29, 40-41
DivSearch ==
  /\ pc = "div_search"
  /\ match' = ReSearch(response.text)
  /\ IF match'.found
     THEN /\ pc' = "div_parse"
          /\ UNCHANGED <<dividend_df, stdout>>
     ELSE /\ stdout' = Append(stdout, Line("No match found.", 0))
          /\ dividend_df' = NoneValue
          /\ pc' = "div_show"
  /\ UNCHANGED <<selected, requests, response, data, rows, ipo_df,
                 raised, ui, source>>

\* extracted_text = match.group(1) + ']'
ExtractedText(m) == m.group1 \o <<"]">>

\* lines 30-31
DivParse ==
  /\ pc = "div_parse"
  /\ LET decoded == JsonLoads(ExtractedText(match)) IN
     IF decoded.ok THEN
       /\ data' = decoded.val
       /\ pc' = "div_frame"
       /\ UNCHANGED raised
     ELSE
       /\ Abort("get_dividend", "JSONDecodeError", <<>>)
       /\ UNCHANGED data
  /\ UNCHANGED <<selected, requests, response, match, rows, ipo_df,
                 dividend_df, stdout, ui, source>>

\* lines 32-39
DivNormalize ==
  /\ pc = "div_frame"
  /\ LET out == DividendFrame(data) IN
     IF out.kind = "return" THEN
       /\ dividend_df' = out.value
       /\ pc' = "div_show"
       /\ UNCHANGED raised
     ELSE
       /\ Abort("get_dividend", out.type, out.args)
       /\ UNCHANGED dividend_df
  /\ UNCHANGED <<selected, requests, response, match, data, rows, ipo_df,
                 stdout, ui, source>>

\* line 205
DivShow ==
  /\ pc = "div_show"
  /\ ui' = Append(ui, "dataframe:dividend")
  /\ pc' = "div_csv"
  /\ UNCHANGED <<selected, requests, response, match, data, rows, ipo_df,
                 dividend_df, raised, stdout, source>>

\* lines 208-214
DivCsv ==
  /\ pc = "div_csv"
  /\ IF dividend_df.t = "None" THEN
       /\ Abort("main", "AttributeError", <<"to_csv">>)
       /\ UNCHANGED ui
     ELSE
       /\ ui' = Append(ui, "download:dividend.csv")
       /\ pc' = "done"
       /\ UNCHANGED raised
  /\ UNCHANGED <<selected, requests, response, match, data, rows, ipo_df,
                 dividend_df, stdout, source>>

Next ==
  \/ Menu
  \/ IpoGet \/ IpoStatus \/ IpoRows \/ IpoNormalize \/ IpoShow \/ IpoCsv
  \/ DivGet \/ DivStatus \/ DivSearch \/ DivParse \/ DivNormalize
  \/ DivShow \/ DivCsv

Spec == Init /\ [][Next]_vars

(* ------------------------------------------------------------------ *)
(* The locate-and-repair step on its own: get_dividend called on a     *)
(* page that holds 'var dtdata = ' <array> ';' with nothing that looks *)
(* like the start of the assignment before it                          *)
(* ------------------------------------------------------------------ *)
\* rows whose strings hold brackets, commas and semicolons, but never
\* the text ']];'
LocRowCatalog ==
  {<<>>,
   <<Num(<<"1">>)>>,
   <<Str(<<"]", "]">>)>>,
   <<Str(<<"]", ";">>), None>>,
   <<Str(<<"[">>), Str(<<",">>)>>,
   <<Str(<<>>), Num(<<"2">>)>>}

\* text before the assignment: none, or a marker that is followed by no
\* bracket and a ']];' that belongs to nothing
LocPrefixes == {<<>>, <<"V", ";", "[", "]", "]", ";">>}

\* text after the assignment
LocTails ==
  {<<>>,
   <<"]", "]", ";">>,
   <<";", "[", "[", "1", "]", "]", ";">>,
   <<"V", "[", "[", "]", "]", ";">>}

SerStyles == {"compact", "spaced", "padded"}

AsJson(rs) == List([i \in 1..Len(rs) |-> List(rs[i])])

InitLocate ==
  /\ pc = "loc_get"
  /\ selected = ""
  /\ requests = <<>>
  /\ response = NoResponse
  /\ match = NoMatch
  /\ data = None
  /\ rows = <<>>
  /\ ipo_df = Unset
  /\ dividend_df = Unset
  /\ raised = NoException
  /\ stdout = <<>>
  /\ ui = <<>>
  /\ source = NoSource

\* line 24, with the site answering 200 and such a page
LocGet ==
  /\ pc = "loc_get"
  /\ requests' = Append(requests, DIVIDEND_URL)
  /\ \E rs \in SeqsUpTo(LocRowCatalog, MaxLocRows), style \in SerStyles,
        pre \in LocPrefixes, post \in LocTails :
       /\ source' = [value |-> AsJson(rs), style |-> style]
       /\ response' = Response(StatusOK, ScriptText(pre, rs, style, post), <<>>)
  /\ pc' = "div_status"
  /\ UNCHANGED <<selected, match, data, rows, ipo_df, dividend_df, raised,
                 stdout, ui>>

NextLocate == LocGet \/ DivStatus \/ DivSearch \/ DivParse

SpecLocate == InitLocate /\ [][NextLocate]_vars

(* ------------------------------------------------------------------ *)
(* Where a run stands, for the properties below                        *)
(* ------------------------------------------------------------------ *)
RunEnded == pc \in {"done", "aborted"}

\* the call got as far as building the frame, and has ended
IpoFramed ==
  \/ ipo_df.t = "DataFrame"
  \/ raised.in = "get_ipo" /\ raised.type = "ValueError"
DivFramed ==
  \/ dividend_df.t = "DataFrame"
  \/ raised.in = "get_dividend" /\ raised.type \in {"ValueError", "TypeError"}

\* the response at hand is the one of get_ipo / get_dividend, and its
\* status has been looked at
IpoAnswered == requests = <<IPO_URL>> /\ response.status # 0 /\ pc # "ipo_status"
DivAnswered ==
  /\ requests # <<>> /\ requests[Len(requests)] = DIVIDEND_URL
  /\ response.status # 0 /\ pc # "div_status"

Count(seq, x) == Cardinality({k \in 1..Len(seq) : seq[k] = x})

Contains(s, pat) == \E i \in 1..Len(s) : IsPrefixAt(pat, s, i)

PathTokens == {EntitlementPath[k] : k \in 1..Len(EntitlementPath)}

\* a stock-code field as the site writes it: the code, alone or after the path
WellFormedCode(s) ==
  \E c \in {s, SubSeq(s, Len(EntitlementPath) + 1, Len(s))} :
     /\ s \in {c, EntitlementPath \o c}
     /\ \A k \in 1..Len(c) : c[k] \notin PathTokens

WellFormedDividendRow(r) ==
  /\ Len(r) = Len(DividendColumns)
  /\ \A k \in 1..Len(r) : r[k].t = "str"
  /\ StrptimeOk(r[1].s, "-") /\ StrptimeOk(r[6].s, "-")
  /\ WellFormedCode(r[7].s)

(* ------------------------------------------------------------------ *)
(* Properties                                                          *)
(* ------------------------------------------------------------------ *)
\* C1: when every row of the decoded payload is a well-formed 9-element
\* row, get_dividend returns a frame with one row per source row, in
\* source order, labelled 1..N, without the 'Blank' column, whose stock
\* codes do not contain the entitlement path and whose URLs are the base
\* URL followed by the raw URL field of the same source row.
C1_DividendNormalized ==
  (/\ DivFramed
   /\ \A i \in 1..Len(data.items) : WellFormedDividendRow(data.items[i].items))
  =>
  /\ dividend_df.t = "DataFrame"
  /\ dividend_df.columns =
       <<"Announcement Date", "Stock Name", "Opening Price", "Current Price",
         "Dividend", "Ex Date", "Stock Code", "URL">>
  /\ Len(dividend_df.rows) = Len(data.items)
  /\ dividend_df.index = [i \in 1..Len(data.items) |-> i]
  /\ \A i \in 1..Len(data.items) :
       LET src == data.items[i].items
           rec == dividend_df.rows[i]
       IN /\ Len(rec) = 8
          /\ rec[1] = Strptime(src[1].s, "-")
          /\ rec[6] = Strptime(src[6].s, "-")
          /\ \A k \in 2..5 : rec[k] = src[k]
          /\ rec[7].t = "str" /\ ~Contains(rec[7].s, EntitlementPath)
          /\ src[7].s \in {rec[7].s, EntitlementPath \o rec[7].s}
          /\ rec[8] = Str(BaseUrl \o src[9].s)

\* C1 witness: a two-row frame was returned, its first source row
\* carrying the path in the stock-code field
C1_Witness ==
  /\ dividend_df.t = "DataFrame"
  /\ data = AsJson(<<DivRowB, DivRowA>>)
  /\ dividend_df.rows[1][7] = Str(<<"5678">>)
  /\ dividend_df.rows[2][8].s = BaseUrl \o EntitlementPath \o <<"1234">>

\* C2: in both pipelines a status other than 200 ends the call in a
\* FetchError that carries the status, with no table and a single GET.
C2_NonOkIsFetchError ==
  /\ (IpoAnswered /\ response.status # StatusOK) =>
       /\ raised.in = "get_ipo" /\ raised.type = "FetchError"
       /\ raised.args = <<response.status>>
       /\ ipo_df.t = "unset"
       /\ Count(requests, IPO_URL) = 1
  /\ (DivAnswered /\ response.status # StatusOK) =>
       /\ raised.in = "get_dividend" /\ raised.type = "FetchError"
       /\ raised.args = <<response.status>>
       /\ dividend_df.t = "unset"
       /\ Count(requests, DIVIDEND_URL) = 1

Notices == {"error:IPO", "error:Dividend"}

\* C3: on the Resources page a failed pipeline leaves a notice on the
\* page and the run goes on: when the run has ended, a failure of
\* get_ipo has not kept the dividend section from being fetched and
\* rendered.
C3_ShellSurvivesFailure ==
  (RunEnded /\ selected = "Resources" /\ ipo_df.t # "DataFrame") =>
    /\ \E k \in 1..Len(ui) : ui[k] \in Notices
    /\ Count(requests, DIVIDEND_URL) = 1
    /\ Count(ui, "dataframe:dividend") = 1

\* C4: a decoded payload with a row that has not 9 elements makes
\* get_dividend fail; no frame is returned.
C4_DividendSchemaDrift ==
  (/\ DivFramed
   /\ \E i \in 1..Len(data.items) :
        Len(data.items[i].items) # Len(DividendColumns))
  => (raised.in = "get_dividend" /\ dividend_df.t = "unset")

\* C5: a 200 document without any table makes get_ipo fail with the
\* extraction error 'no table found', and with no other error.
C5_NoTableFound ==
  (/\ IpoAnswered /\ response.status = StatusOK /\ pc # "ipo_rows"
   /\ response.soup = <<>>)
  => raised = Exception("get_ipo", "ExtractError", <<"no table found">>)

\* the other fields of an IPO row are well-formed: 10 cells, and both
\* required dates in the site's layout
WellFormedIpoRow(r) ==
  /\ Len(r) = Len(IpoColumns)
  /\ StrptimeOk(r[2].s, " ") /\ StrptimeOk(r[10].s, " ")

IsDateText(s) == StrptimeOk(s, " ") \/ StrptimeOk(s, "-")

\* C6: when the other fields of every row are well-formed, get_ipo
\* returns all rows; a row whose Application Closed text is '-' or is no
\* date has that field absent, a row whose text is a date has that date,
\* and every other field is the one read from the same row.
C6_ApplicationClosedLenient ==
  (IpoFramed /\ \A i \in 1..Len(rows) : WellFormedIpoRow(rows[i]))
  =>
  /\ ipo_df.t = "DataFrame"
  /\ Len(ipo_df.rows) = Len(rows)
  /\ ipo_df.index = [i \in 1..Len(rows) |-> i]
  /\ \A i \in 1..Len(rows) :
       LET src == rows[i]
           rec == ipo_df.rows[i]
       IN /\ Len(rec) = 10
          /\ \A k \in {1} \cup (4..9) : rec[k] = src[k]
          /\ rec[2] = Strptime(src[2].s, " ")
          /\ rec[10] = Strptime(src[10].s, " ")
          /\ (src[3].s = <<"-">> \/ ~IsDateText(src[3].s)) => rec[3] = NaT
          /\ StrptimeOk(src[3].s, " ") => rec[3] = Strptime(src[3].s, " ")

\* C6 witness: a frame of two rows was returned whose Application
\* Closed texts were '-' and a date
C6_Witness ==
  /\ ipo_df.t = "DataFrame"
  /\ Len(rows) = 2
  /\ \A i \in 1..2 : Len(rows[i]) = 10
  /\ rows[1][3] = Str(<<"-">>) /\ ipo_df.rows[1][3] = NaT
  /\ rows[2][3] = Str(DateText("15", "Jan", "2024", " "))
  /\ ipo_df.rows[2][3] = Date("2024", "01", "15")

\* C7: a 200 document without the payload pattern makes get_dividend
\* fail with the extraction error 'payload not found'; the call does not
\* end normally without a result.
C7_PayloadNotFound ==
  (/\ DivAnswered /\ response.status = StatusOK /\ pc # "div_search"
   /\ ~match.found)
  => raised = Exception("get_dividend", "ExtractError", <<"payload not found">>)

\* C8: a body row that has not exactly 10 cells makes get_ipo fail; no
\* frame is returned.
C8_IpoRowShape ==
  (IpoFramed /\ \E i \in 1..Len(rows) : Len(rows[i]) # Len(IpoColumns))
  => (raised.in = "get_ipo" /\ ipo_df.t = "unset")

\* every field of a returned record that must hold a value holds one
DividendRecordComplete(rec) ==
  /\ rec[1].t = "date" /\ rec[6].t = "date"
  /\ rec[7].t = "str" /\ rec[8].t = "str"
IpoRecordComplete(rec) ==
  /\ rec[2].t = "date" /\ rec[10].t = "date"
  /\ \A k \in {1} \cup (4..9) : rec[k].t = "str"

\* C9: once the payload is located a call either returns a frame that
\* holds every source row fully normalized or fails without a frame; a
\* repaired literal that is no JSON, and a required date that does not
\* parse under its format, make the call fail.
C9_AllOrNothing ==
  /\ (DivAnswered /\ match.found /\ pc \notin {"div_parse", "div_frame"}) =>
       \/ /\ dividend_df.t = "DataFrame"
          /\ Len(dividend_df.rows) = Len(data.items)
          /\ \A i \in 1..Len(data.items) :
               DividendRecordComplete(dividend_df.rows[i])
       \/ raised.in = "get_dividend" /\ dividend_df.t = "unset"
  /\ IpoFramed =>
       \/ /\ ipo_df.t = "DataFrame"
          /\ Len(ipo_df.rows) = Len(rows)
          /\ \A i \in 1..Len(rows) : IpoRecordComplete(ipo_df.rows[i])
       \/ raised.in = "get_ipo" /\ ipo_df.t = "unset"
  /\ (DivFramed /\ \E i \in 1..Len(data.items) : \E k \in {1, 6} :
        /\ k <= Len(data.items[i].items)
        /\ ~StrptimeOk(data.items[i].items[k].s, "-"))
     => (raised.in = "get_dividend" /\ dividend_df.t = "unset")
  /\ (IpoFramed /\ \E i \in 1..Len(rows) : \E k \in {2, 10} :
        k <= Len(rows[i]) /\ ~StrptimeOk(rows[i][k].s, " "))
     => (raised.in = "get_ipo" /\ ipo_df.t = "unset")

\* the locate step has run to its end
LocEnded == pc \in {"div_frame", "div_show", "aborted"}

\* C10 as stated: whatever array of N >= 0 rows the page holds, the
\* fragment get_dividend decodes is that array.
C10_RoundTripAnyArray ==
  LocEnded => (match.found /\ data = source.value)

\* C10 as it holds: for an array of N >= 1 rows written with nothing
\* between the closing bracket of its last row and its own closing
\* bracket, the fragment get_dividend decodes is that array.
C10_RoundTrip ==
  (LocEnded /\ Len(source.value.items) >= 1 /\ source.style # "padded")
  => (match.found /\ data = source.value)

\* C10 witness: two rows, a string holding ']]', commas followed by
\* blanks, and script text after the assignment with a ']];' of its own
C10_Witness ==
  /\ LocEnded
  /\ source.style = "spaced"
  /\ Len(source.value.items) = 2
  /\ source.value.items[1].items = <<Str(<<"]", "]">>)>>
  /\ Cardinality({j \in 1..Len(response.text) :
                    IsTerminatorAt(response.text, j)}) = 3
  /\ data = source.value

====
